---- MODULE Spec2Model ----
(***************************************************************************)
(* Commander dashboard: state fetcher (useGameState / useGraphData),       *)
(* command dispatcher (useHaltSystem / useAssignMission), the Index page   *)
(* and the Citadel mission form.                                           *)
(*                                                                         *)
(* A snapshot of the game state is abstracted to its system_status and a   *)
(* body tag standing for every other field (daily_budget, party,           *)
(* active_quests, guardrail_log, repositories).  Graph data is abstracted  *)
(* to a tag.  The backend is the environment: every response (outcome and  *)
(* payload) is chosen nondeterministically when the request resolves.      *)
(***************************************************************************)
EXTENDS Integers, Sequences, FiniteSets, TLC

\* ---------------------------------------------------------------- bounds
\* Largest number of requests of one resource on the wire at the same time.
MaxInFlight == 2

\* ------------------------------------------------------------- constants
GS == "game-state"
GD == "graph-data"

\* The two polled query keys.
Resources == {GS, GD}

\* Value of a query's data before any fetch has resolved.
Undefined == [undefined |-> TRUE]

\* GameState["system_status"].
Statuses == {"OPERATIONAL", "DEGRADED", "HALTED"}

\* How a request can end: 2xx with a parseable body, fetch() rejecting,
\* a non-2xx response, or a body that res.json() cannot parse.
Outcomes == {"ok", "network", "http", "parse"}

\* mockGameState: system_status OPERATIONAL plus the sample party/quests/log.
mockGameState == [system_status |-> "OPERATIONAL", body |-> "mock"]

\* mockGraphData: the sample node/edge set.
mockGraphData == [elements |-> "mockGraph"]

\* Bodies the backend can answer GET /game-state with (a running and a
\* halted system; "live" stands for the fields other than system_status).
ServerGameStates == [system_status : {"OPERATIONAL", "HALTED"}, body : {"live"}]

\* Bodies the backend can answer GET /graph-nodes with.
ServerGraphs == [elements : {"g1"}]

\* Payloads the backend can return for a resource.
ServerPayloads(r) == IF r = GS THEN ServerGameStates ELSE ServerGraphs

\* The fallback each hook passes to fetchWithFallback.
Fallback(r) == IF r = GS THEN mockGameState ELSE mockGraphData

\* Toast texts.
NoToast == "none"
ValidationToast == "Please fill in all fields."
SuccessToast == "Mission Assigned successfully!"
FailureToast == "Failed to assign mission."

\* Values the form fields can take ("" is the initial, unset value).
AgentIds == {"pm-01"}
RepoIds == {"repo-1"}
Tasks == {"", "ship it"}

VARIABLES
    data,           \* [Resources -> snapshot or Undefined]: the query cache
    isError,        \* [Resources -> BOOLEAN]: useQuery's isError
    isInvalidated,  \* [Resources -> BOOLEAN]: query marked stale by invalidateQueries
    inflight,       \* [Resources -> 0..MaxInFlight]: the query's fetch in progress
    cancelled,      \* [Resources -> 0..MaxInFlight]: requests on the wire whose fetch was cancelled
    haltPending,    \* haltMutation.isPending
    assignPending,  \* assignMutation.isPending
    selectedAgent,  \* CitadelControls form state
    selectedRepo,
    missionTask,
    toast,          \* last toast shown
    lastTick,       \* [Resources -> {"none","ok","fail"}]: outcome of the latest resolved tick
    lastGood,       \* [Resources -> snapshot or Undefined]: latest payload fetched successfully
    haltFailed,     \* a halt whose transport failed was applied and no poll has succeeded since
    lastOp,         \* the handler that ran last, with its inputs
    \* HexGrid.gd (spatial projector)
    spawned_nodes,  \* Array[Node]: the nodes tracked for the next clear_grid
    children,       \* identities of the nodes that are children of the HexGrid node
    passNo,         \* number of update_grid passes run so far
    lastState,      \* state_data of the latest pass
    firstState,     \* state_data of the first pass
    firstPlacement, \* the buildings, tokens and labels the first pass placed
    \* Main.gd (secondary renderer's polling loop)
    vizBusy,        \* the HTTPRequest node has a request in progress
    vizData,        \* the data of the latest "Game State Update"
    vizUpdates,     \* number of responses accepted as a game-state update
    vizLast,        \* the latest completed request and whether it was accepted
    \* CharacterCard / QuestLog / SovereignControls (row renderers)
    rendered,       \* what the latest render of a row component produced
    \* KnowledgeGraph
    graphProp,      \* the graphData prop (Undefined until the first data)
    mounted,        \* the component is mounted
    cyRef,          \* cyRef.current: 0 for null, else the instance it points to
    cyLive,         \* the graph instances created and not destroyed
    cyMade,         \* number of graph instances created so far
    cyGraph,        \* the elements the instance of cyRef was built from
    selectedNode,   \* useState: the data of the selected node, or Null
    cySelected,     \* ids of the elements in state :selected in the instance
    zoom,           \* zoom level of the instance, in hundredths
    taps,           \* the latest two taps on a node or on the canvas
    \* vite dev / preview server of the dashboard
    responses       \* the latest two responses served

vars == <<data, isError, isInvalidated, inflight, cancelled, haltPending, assignPending,
          selectedAgent, selectedRepo, missionTask, toast,
          lastTick, lastGood, haltFailed, lastOp>>

gridVars == <<spawned_nodes, children, passNo, lastState, firstState, firstPlacement>>

vizVars == <<vizBusy, vizData, vizUpdates, vizLast>>

renderVars == <<rendered>>

graphVars == <<graphProp, mounted, cyRef, cyLive, cyMade, cyGraph,
               selectedNode, cySelected, zoom, taps>>

serveVars == <<responses>>

restVars == <<renderVars, graphVars, serveVars>>

allVars == <<vars, gridVars, vizVars, restVars>>

\* Record of the handler that ran last (kept in lastOp).
Op(name, r, outcome, status) ==
    [op |-> name, r |-> r, outcome |-> outcome, status |-> status]

\* ------------------------------------------------------------ operators

\* Variant without the catch: a failure rejects the promise.
fetchWithFallback_noCatch(outcome, payload, fallback) ==
    [threw |-> outcome # "ok", value |-> payload]

\* fetchWithFallback: the response body on success, the fallback on any
\* failure; the catch is unconditional, so the promise never rejects.
fetchWithFallback(outcome, payload, fallback) ==
    [threw |-> FALSE,
     value |-> IF outcome = "ok" THEN payload ELSE fallback]

\* Index: isConnected = !gsError && !gdError.
isConnected == ~isError[GS] /\ ~isError[GD]

\* Index: isHalted = gameState?.system_status === "HALTED".
isHalted == data[GS] # Undefined /\ data[GS].system_status = "HALTED"

\* Index: {isHalted && <SystemInterdicted />}.
overlayShown == isHalted

\* How a control can be activated.
Activations == {"pointer", "keyboard"}

\* SystemInterdicted is a fixed inset-0 z-50 layer: while it is shown it
\* receives every pointer event aimed at the page beneath it.  It takes no
\* focus and disables nothing, so keyboard activation still reaches a control.
overlayBlocks(via) == via = "pointer" /\ overlayShown

\* Some way of activating a control of the page is open.
canActivate == \E via \in Activations : ~overlayBlocks(via)

\* Header: connectivity label.
HeaderLabel == IF isConnected THEN "POLLING" ELSE "MOCK"

\* No state_data seen yet.
NoState == [none |-> TRUE]

\* JavaScript null.
Null == [null |-> TRUE]

\* ----------------------------------------------------------------- Init
\* After mount: both queries have issued their first fetch, nothing cached.
\* The visualizer's _ready has issued its initial fetch; the grid is empty.
Init ==
    /\ data = [r \in Resources |-> Undefined]
    /\ isError = [r \in Resources |-> FALSE]
    /\ isInvalidated = [r \in Resources |-> FALSE]
    /\ inflight = [r \in Resources |-> 1]
    /\ cancelled = [r \in Resources |-> 0]
    /\ haltPending = FALSE
    /\ assignPending = FALSE
    /\ selectedAgent = ""
    /\ selectedRepo = ""
    /\ missionTask = ""
    /\ toast = NoToast
    /\ lastTick = [r \in Resources |-> "none"]
    /\ lastGood = [r \in Resources |-> Undefined]
    /\ haltFailed = FALSE
    /\ lastOp = Op("mount", "-", "-", "-")
    /\ spawned_nodes = <<>>
    /\ children = {}
    /\ passNo = 0
    /\ lastState = NoState
    /\ firstState = NoState
    /\ firstPlacement = <<>>
    /\ vizBusy = TRUE
    /\ vizData = NoState
    /\ vizUpdates = 0
    /\ vizLast = [result |-> "-", response_code |-> 0, decoded |-> FALSE, taken |-> FALSE]
    /\ rendered = NoState
    /\ graphProp = Undefined
    /\ mounted = TRUE
    /\ cyRef = 0
    /\ cyLive = {}
    /\ cyMade = 0
    /\ cyGraph = Undefined
    /\ selectedNode = Null
    /\ cySelected = {}
    /\ zoom = 100
    /\ taps = <<>>
    /\ responses = <<>>

\* -------------------------------------------------------------- actions

\* Variant that issues a request on every tick, whatever is in flight.
issue_overlap(fl, r) == [fl EXCEPT ![r] = IF @ < MaxInFlight THEN @ + 1 ELSE @]

\* The interval timer calls the query's fetch without cancelRefetch: a fetch
\* already in progress is reused and no request is issued.
issue(fl, r) == [fl EXCEPT ![r] = IF @ = 0 THEN 1 ELSE @]

\* refetchInterval: 5000 — the timer fires for a resource.
Tick(r) ==
    /\ inflight' = issue(inflight, r)
    /\ UNCHANGED <<cancelled, gridVars, vizVars, restVars>>
    /\ lastOp' = Op("Tick", r, IF inflight'[r] > inflight[r] THEN "issued" ELSE "reused", "-")
    /\ UNCHANGED <<data, isError, isInvalidated, haltPending, assignPending,
                   selectedAgent, selectedRepo, missionTask, toast,
                   lastTick, lastGood, haltFailed>>

\* Variant that keeps the cached system_status when a snapshot arrives.
setData_keepStatus(old, value) ==
    IF old # Undefined /\ "system_status" \in DOMAIN old /\ "system_status" \in DOMAIN value
    THEN [value EXCEPT !.system_status = old.system_status]
    ELSE value

\* useQuery stores what queryFn resolved to in place of the cached data.
setData(old, value) == value

\* The cached system status, "-" when there is none.
cachedStatus(r) ==
    IF data[r] # Undefined /\ "system_status" \in DOMAIN data[r]
    THEN data[r].system_status ELSE "-"

\* A request of resource r resolves: queryFn = fetchWithFallback(url, mock),
\* and useQuery stores what it resolved to (or flags the error if it threw).
PollResolve(r, outcome, payload) ==
    /\ inflight[r] > 0
    /\ LET res == fetchWithFallback(outcome, payload, Fallback(r)) IN
        /\ data' = [data EXCEPT ![r] = IF res.threw THEN @ ELSE setData(@, res.value)]
        /\ isError' = [isError EXCEPT ![r] = res.threw]
        /\ isInvalidated' = [isInvalidated EXCEPT ![r] = IF res.threw THEN @ ELSE FALSE]
    /\ inflight' = [inflight EXCEPT ![r] = @ - 1]
    /\ lastTick' = [lastTick EXCEPT ![r] = IF outcome = "ok" THEN "ok" ELSE "fail"]
    /\ lastGood' = [lastGood EXCEPT ![r] = IF outcome = "ok" THEN payload ELSE @]
    /\ haltFailed' = IF r = GS /\ outcome = "ok" THEN FALSE ELSE haltFailed
    /\ UNCHANGED <<cancelled, gridVars, vizVars, restVars>>
    /\ lastOp' = Op("PollResolve", r, outcome, cachedStatus(r))
    /\ UNCHANGED <<haltPending, assignPending, selectedAgent, selectedRepo,
                   missionTask, toast>>

\* Variant without the catch: a failed POST /halt rejects the mutation.
haltMutationFn_rethrow(outcome, respStatus) ==
    [threw |-> outcome # "ok", value |-> [status |-> respStatus]]

\* useHaltSystem.mutationFn: POST /halt; any failure is caught and replaced by
\* the literal {status: "HALTED"}, so the mutation never rejects.
haltMutationFn(outcome, respStatus) ==
    [threw |-> FALSE,
     value |-> IF outcome = "ok" THEN [status |-> respStatus]
                                 ELSE [status |-> "HALTED"]]

\* Variant that writes the status carried by the mutation result.
haltOnSuccess_fromResult(old, result) ==
    IF old # Undefined THEN [old EXCEPT !.system_status = result.status] ELSE old

\* Variant that replaces the cached snapshot by the sample one, halted.
haltOnSuccess_reset(old, result) ==
    IF old # Undefined THEN [mockGameState EXCEPT !.system_status = "HALTED"]
    ELSE old

\* Variant that creates a halted snapshot when none is cached.
haltOnSuccess_create(old, result) ==
    IF old # Undefined THEN [old EXCEPT !.system_status = "HALTED"]
    ELSE [mockGameState EXCEPT !.system_status = "HALTED"]

\* useHaltSystem.onSuccess: setQueryData(["game-state"], old => old ?
\* {...old, system_status: "HALTED"} : old).  The mutation result is not read.
haltOnSuccess(old, result) ==
    IF old # Undefined THEN [old EXCEPT !.system_status = "HALTED"] ELSE old

\* Variant of the halt button that is never disabled.
haltDisabled_never == FALSE

\* SovereignControls: disabled={isHalting}, with Index passing
\* isHalting={haltMutation.isPending}.
haltDisabled == haltPending

\* CitadelControls: the Deploy Agent button has disabled={assignMutation.isPending}.
deployDisabled == assignPending

\* SovereignControls: onClick={onHalt} disabled={isHalting}; issues POST /halt.
HaltPress ==
    /\ canActivate
    /\ ~haltDisabled
    /\ haltPending' = TRUE
    /\ UNCHANGED <<cancelled, gridVars, vizVars, restVars>>
    /\ lastOp' = Op("HaltPress", "-", "-", "-")
    /\ UNCHANGED <<data, isError, isInvalidated, inflight, assignPending,
                   selectedAgent, selectedRepo, missionTask, toast,
                   lastTick, lastGood, haltFailed>>

\* POST /halt settles: mutationFn resolves and onSuccess runs in the same
\* microtask chain, before any other response is handled.
HaltResolve(outcome, respStatus) ==
    /\ haltPending
    /\ LET res == haltMutationFn(outcome, respStatus) IN
        /\ data' = [data EXCEPT ![GS] = IF res.threw THEN @
                                         ELSE haltOnSuccess(@, res.value)]
        /\ haltFailed' = IF outcome # "ok" /\ ~res.threw /\ data[GS] # Undefined
                         THEN TRUE ELSE haltFailed
    /\ haltPending' = FALSE
    /\ UNCHANGED <<cancelled, gridVars, vizVars, restVars>>
    /\ lastOp' = Op("HaltResolve", "-", outcome,
                    IF outcome = "ok" THEN respStatus ELSE "-")
    /\ UNCHANGED <<isError, isInvalidated, inflight, assignPending,
                   selectedAgent, selectedRepo, missionTask, toast,
                   lastTick, lastGood>>

\* Select onValueChange={setSelectedAgent}.
SetAgent(a) ==
    /\ canActivate
    /\ selectedAgent' = a
    /\ UNCHANGED <<cancelled, gridVars, vizVars, restVars>>
    /\ lastOp' = Op("SetAgent", "-", "-", "-")
    /\ UNCHANGED <<data, isError, isInvalidated, inflight, haltPending,
                   assignPending, selectedRepo, missionTask, toast,
                   lastTick, lastGood, haltFailed>>

\* Select onValueChange={setSelectedRepo}.
SetRepo(p) ==
    /\ canActivate
    /\ selectedRepo' = p
    /\ UNCHANGED <<cancelled, gridVars, vizVars, restVars>>
    /\ lastOp' = Op("SetRepo", "-", "-", "-")
    /\ UNCHANGED <<data, isError, isInvalidated, inflight, haltPending,
                   assignPending, selectedAgent, missionTask, toast,
                   lastTick, lastGood, haltFailed>>

\* Textarea onChange={(e) => setMissionTask(e.target.value)}.
SetTask(t) ==
    /\ canActivate
    /\ missionTask' = t
    /\ UNCHANGED <<cancelled, gridVars, vizVars, restVars>>
    /\ lastOp' = Op("SetTask", "-", "-", "-")
    /\ UNCHANGED <<data, isError, isInvalidated, inflight, haltPending,
                   assignPending, selectedAgent, selectedRepo, toast,
                   lastTick, lastGood, haltFailed>>

\* Variant that forgets the task field.
fieldsMissing_noTask(agent, repo, task) == agent = "" \/ repo = ""

\* handleAssign's guard: !selectedAgent || !selectedRepo || !missionTask.
fieldsMissing(agent, repo, task) == agent = "" \/ repo = "" \/ task = ""

\* CitadelControls.handleAssign (Deploy Agent, disabled while isPending):
\* validation toast and return, or assignMutation.mutate(...).
handleAssign ==
    /\ canActivate
    /\ ~deployDisabled
    /\ IF fieldsMissing(selectedAgent, selectedRepo, missionTask)
       THEN /\ toast' = ValidationToast
            /\ UNCHANGED assignPending
       ELSE /\ assignPending' = TRUE
            /\ UNCHANGED toast
    /\ UNCHANGED <<cancelled, gridVars, vizVars, restVars>>
    /\ lastOp' = Op("handleAssign", "-", "-", "-")
    /\ UNCHANGED <<data, isError, isInvalidated, inflight, haltPending,
                   selectedAgent, selectedRepo, missionTask,
                   lastTick, lastGood, haltFailed>>

\* Variant without the res.ok check: a non-2xx answer counts as success.
assignMutationFn_noOkCheck(outcome) == [threw |-> outcome \in {"network", "parse"}]

\* useAssignMission.mutationFn: rejects when fetch rejects, when the response
\* is not ok, and when res.json() cannot parse the body.
assignMutationFn(outcome) == [threw |-> outcome # "ok"]

\* queryClient.invalidateQueries({queryKey}): marks the query stale ...
invalidateQueries(inv, key) == [inv EXCEPT ![key] = TRUE]

\* ... and refetches it with cancelRefetch: a fetch in progress over cached
\* data is cancelled (its request stays on the wire, its response will be
\* dropped); a first load still in progress is reused.
cancelRefetch(c, fl, d, key) ==
    [c EXCEPT ![key] = IF fl[key] > 0 /\ d[key] # Undefined /\ @ + fl[key] < MaxInFlight
                       THEN @ + 1 ELSE @]

\* Variant that issues no request.
refetch_none(fl, key) == fl

\* ... then a fetch of the query is in progress.
refetch(fl, key) == [fl EXCEPT ![key] = IF @ = 0 THEN 1 ELSE @]

\* POST /mission/assign settles: useAssignMission.onSuccess, then the
\* onSuccess / onError passed to mutate() in handleAssign.
AssignResolve(outcome) ==
    /\ assignPending
    /\ assignPending' = FALSE
    /\ IF assignMutationFn(outcome).threw
       THEN /\ toast' = FailureToast
            /\ UNCHANGED <<isInvalidated, inflight, cancelled, missionTask>>
       ELSE /\ isInvalidated' = invalidateQueries(isInvalidated, GS)
            /\ cancelled' = cancelRefetch(cancelled, inflight, data, GS)
            /\ inflight' = refetch(inflight, GS)
            /\ toast' = SuccessToast
            /\ missionTask' = ""
    /\ UNCHANGED <<gridVars, vizVars, restVars>>
    /\ lastOp' = Op("AssignResolve", "-", outcome, "-")
    /\ UNCHANGED <<data, isError, haltPending, selectedAgent, selectedRepo,
                   lastTick, lastGood, haltFailed>>

\* The response of a cancelled fetch arrives: nothing reads it.
DiscardResolve(r, outcome) ==
    /\ cancelled[r] > 0
    /\ cancelled' = [cancelled EXCEPT ![r] = @ - 1]
    /\ lastOp' = Op("DiscardResolve", r, outcome, "-")
    /\ UNCHANGED <<data, isError, isInvalidated, inflight, haltPending, assignPending,
                   selectedAgent, selectedRepo, missionTask, toast,
                   lastTick, lastGood, haltFailed>>
    /\ UNCHANGED <<gridVars, vizVars, restVars>>

Next ==
    \/ \E r \in Resources : Tick(r)
    \/ \E r \in Resources, o \in Outcomes : DiscardResolve(r, o)
    \/ \E r \in Resources, o \in Outcomes :
          \E p \in ServerPayloads(r) : PollResolve(r, o, p)
    \/ HaltPress
    \/ \E o \in Outcomes, s \in Statuses : HaltResolve(o, s)
    \/ \E a \in AgentIds : SetAgent(a)
    \/ \E p \in RepoIds : SetRepo(p)
    \/ \E t \in Tasks : SetTask(t)
    \/ handleAssign
    \/ \E o \in Outcomes : AssignResolve(o)

Spec == Init /\ [][Next]_allVars

\* The interval timers are fair: each keeps firing.  Nothing makes a request
\* settle: fetch() is called without a timeout or an abort signal.
SpecTimerFair == Spec /\ \A r \in Resources : WF_allVars(Tick(r))

\* ======================================================= HexGrid.gd
\* ---------------------------------------------------------------- bounds
\* Largest number of repositories (territories) in a projected state.
MaxRepos == 5

\* Largest number of members in a repository's swarm list.
MaxSwarm == 7

\* Largest number of update_grid passes in one behaviour.
MaxPasses == 3

\* ------------------------------------------------------------- constants
\* COUNTRY_COLORS.
COUNTRY_COLORS ==
    [x \in {"The Swarm Motherland", "The Core Empire",
            "The Front-End Republic", "The Security Kingdom"} |->
        CASE x = "The Swarm Motherland" -> "blue"
          [] x = "The Core Empire" -> "red"
          [] x = "The Front-End Republic" -> "green"
          [] x = "The Security Kingdom" -> "yellow"]

\* BUILDING_ASSET_TEMPLATES (each path abbreviated to its file name).
BUILDING_ASSET_TEMPLATES ==
    [x \in {"blue", "red", "green", "yellow", "neutral"} |->
        CASE x = "blue" -> "building_castle_blue.gltf"
          [] x = "red" -> "building_castle_red.gltf"
          [] x = "green" -> "building_castle_green.gltf"
          [] x = "yellow" -> "building_castle_yellow.gltf"
          [] x = "neutral" -> "building_tower_A_neutral.gltf"]

\* AGENT_ASSET_TEMPLATES (each path abbreviated to its file name).
AGENT_ASSET_TEMPLATES ==
    [x \in {"ProductManager", "Architect", "Coder", "Reviewer", "Deployer",
            "Analyst", "Security", "Default"} |->
        CASE x = "ProductManager" -> "Mage.glb"
          [] x = "Architect" -> "Knight.glb"
          [] x = "Coder" -> "Rogue.glb"
          [] x = "Reviewer" -> "Barbarian.glb"
          [] x = "Deployer" -> "Knight.glb"
          [] x = "Analyst" -> "Mage.glb"
          [] x = "Security" -> "Rogue_Hooded.glb"
          [] x = "Default" -> "Barbarian.glb"]

\* update_grid: repo_centers.
repo_centers == << <<0, 0>>, <<3, -1>>, <<-3, 1>>, <<0, 3>> >>

\* update_grid: agent_offsets.
agent_offsets == << <<1, 0>>, <<0, 1>>, <<-1, 1>>, <<-1, 0>>, <<0, -1>>, <<1, -1>> >>

\* update_grid: the radius passed to _generate_base_grid.
BaseRadius == 3

\* ------------------------------------------------------------ operators
\* An empty Dictionary.
EmptyDict == [x \in {} |-> x]

\* Dictionary.get(key, default).
Get(dict, key, default) == IF key \in DOMAIN dict THEN dict[key] ELSE default

Max2(a, b) == IF a >= b THEN a ELSE b

Min2(a, b) == IF a <= b THEN a ELSE b

\* What instantiating a scene or a Label3D yields, before it gets an identity.
Descr(kind, q, r, asset, text, color) ==
    [kind |-> kind, q |-> q, r |-> r, asset |-> asset, text |-> text, color |-> color]

\* _spawn_hex: one grass tile on cell (q, r).
_spawn_hex(q, r) == << Descr("tile", q, r, "hex_grass.gltf", <<>>, "") >>

\* Variant whose rows stop one cell early: range(r1, r2).
RECURSIVE HexRow_exclusive(_, _, _)
HexRow_exclusive(q, r, r2) ==
    IF r >= r2 THEN <<>> ELSE _spawn_hex(q, r) \o HexRow_exclusive(q, r + 1, r2)

\* _generate_base_grid, inner loop: for r in range(r1, r2 + 1).
RECURSIVE HexRow(_, _, _)
HexRow(q, r, r2) ==
    IF r > r2 THEN <<>> ELSE _spawn_hex(q, r) \o HexRow(q, r + 1, r2)

\* _generate_base_grid, outer loop: for q in range(-radius - 2, radius + 3).
RECURSIVE HexColumns(_, _)
HexColumns(q, radius) ==
    IF q > radius + 2 THEN <<>>
    ELSE HexRow(q, Max2(-radius - 2, -q - (radius + 2)),
                   Min2(radius + 2, -q + (radius + 2)))
         \o HexColumns(q + 1, radius)

\* _generate_base_grid(radius).
_generate_base_grid(radius) == HexColumns(-radius - 2, radius)

\* _add_floating_text: a Label3D with the text and the colour.
_add_floating_text(q, r, text, color) ==
    << Descr("label", q, r, "Label3D", text, color) >>

\* _spawn_building: the castle of the name's colour (neutral tower when the
\* name has no colour) and its AQUA label.
_spawn_building(q, r, label_text) ==
    LET color == Get(COUNTRY_COLORS, label_text, "neutral")
        b_path == Get(BUILDING_ASSET_TEMPLATES, color, BUILDING_ASSET_TEMPLATES["neutral"])
    IN << Descr("building", q, r, b_path, <<>>, "") >>
       \o _add_floating_text(q, r, <<label_text>>, "AQUA")

\* _spawn_agent: color_label = YELLOW, GREEN_YELLOW if status != "Standby".
LabelColor(status) == IF status # "Standby" THEN "GREEN_YELLOW" ELSE "YELLOW"

\* Variant that places nothing for a member without an agent record.
_spawn_agent_skipUnknown(q, r, agent_info) ==
    IF agent_info = EmptyDict THEN <<>>
    ELSE << Descr("agent", q, r,
                  Get(AGENT_ASSET_TEMPLATES, Get(agent_info, "class", "Default"),
                      AGENT_ASSET_TEMPLATES["Default"]), <<>>, "") >>
         \o _add_floating_text(q, r, <<Get(agent_info, "id", "Unknown"),
                                       Get(agent_info, "current_action", "Standby")>>,
                               LabelColor(Get(agent_info, "current_action", "Standby")))

\* _spawn_agent: the token of the agent's class (Default when the class has
\* no asset) and the label "id\n[status]".
_spawn_agent(q, r, agent_info) ==
    LET agent_class == Get(agent_info, "class", "Default")
        a_path == Get(AGENT_ASSET_TEMPLATES, agent_class, AGENT_ASSET_TEMPLATES["Default"])
        agent_id == Get(agent_info, "id", "Unknown")
        status == Get(agent_info, "current_action", "Standby")
    IN << Descr("agent", q, r, a_path, <<>>, "") >>
       \o _add_floating_text(q, r, <<agent_id, status>>, LabelColor(status))

\* update_grid, step 2: agent_map[agent.get("id", "")] = agent, in list order.
RECURSIVE BuildAgentMap(_, _)
BuildAgentMap(party, k) ==
    IF k = 0 THEN EmptyDict
    ELSE LET prev == BuildAgentMap(party, k - 1)
             id == Get(party[k], "id", "")
         IN [x \in DOMAIN prev \cup {id} |-> IF x = id THEN party[k] ELSE prev[x]]

\* Variant that cycles over one centre less.
repo_center_short(i) == repo_centers[(i % (Len(repo_centers) - 1)) + 1]

\* Variant that spreads the anchors twice as far from the origin.
repo_center_far(i) ==
    LET c == repo_centers[(i % Len(repo_centers)) + 1] IN <<2 * c[1], 2 * c[2]>>

\* update_grid: center = repo_centers[i % repo_centers.size()] (i from 0).
repo_center(i) == repo_centers[(i % Len(repo_centers)) + 1]

\* Variant that starts the ring one seat later.
agent_offset_shifted(j) == agent_offsets[((j + 1) % Len(agent_offsets)) + 1]

\* Variant whose ring wraps one offset early.
agent_offset_short(j) == agent_offsets[(j % (Len(agent_offsets) - 1)) + 1]

\* update_grid: offset = agent_offsets[j % agent_offsets.size()] (j from 0).
agent_offset(j) == agent_offsets[(j % Len(agent_offsets)) + 1]

\* update_grid, step 4: for j in range(agents.size()).
RECURSIVE SpawnSwarm(_, _, _, _)
SpawnSwarm(center, agents, agent_map, j) ==
    IF j >= Len(agents) THEN <<>>
    ELSE LET offset == agent_offset(j)
             agent_info == Get(agent_map, agents[j + 1], EmptyDict)
         IN _spawn_agent(center[1] + offset[1], center[2] + offset[2], agent_info)
            \o SpawnSwarm(center, agents, agent_map, j + 1)

\* update_grid, step 3: for i in range(repos.size()).
RECURSIVE SpawnRepos(_, _, _)
SpawnRepos(repos, agent_map, i) ==
    IF i >= Len(repos) THEN <<>>
    ELSE LET repo == repos[i + 1]
             center == repo_center(i)
         IN _spawn_building(center[1], center[2], Get(repo, "name", "Unknown Territory"))
            \o SpawnSwarm(center, Get(repo, "swarm", <<>>), agent_map, 0)
            \o SpawnRepos(repos, agent_map, i + 1)

\* update_grid, step 1: _generate_base_grid(3).
BaseField == _generate_base_grid(BaseRadius)

\* Everything one update_grid pass instantiates, in spawn order.
Projection(state_data) ==
    LET party == Get(state_data, "party", <<>>)
        agent_map == BuildAgentMap(party, Len(party))
    IN BaseField
       \o SpawnRepos(Get(state_data, "repositories", <<>>), agent_map, 0)

\* The nodes of pass number pass: each instance is a new object.
Instantiate(descrs, pass) ==
    [k \in 1..Len(descrs) |-> [uid |-> <<pass, k>>, d |-> descrs[k]]]

\* What a list of nodes shows, without the nodes' identities.
Shown(nodes) == [k \in 1..Len(nodes) |-> nodes[k].d]

\* The identities of a list of nodes.
Ids(nodes) == {nodes[k].uid : k \in 1..Len(nodes)}

\* A building, a token or a label (not a background tile).
IsEntity(descr) == descr.kind # "tile"

\* The buildings, tokens and labels among what is shown, in spawn order.
Entities(shown) == SelectSeq(shown, IsEntity)

\* Variant that leaves the tracked nodes in place.
clear_grid_skipped(scene, tracked) == [children |-> scene, spawned_nodes |-> tracked]

\* Variant that forgets the nodes without freeing them.
clear_grid_noFree(scene, tracked) == [children |-> scene, spawned_nodes |-> <<>>]

\* Variant that frees and forgets the entities but keeps the tiles tracked.
clear_grid_keepTiles(scene, tracked) ==
    [children |-> scene \ Ids(SelectSeq(tracked, LAMBDA n : n.d.kind # "tile")),
     spawned_nodes |-> SelectSeq(tracked, LAMBDA n : n.d.kind = "tile")]

\* clear_grid: queue_free every tracked node, then spawned_nodes.clear().
clear_grid(scene, tracked) ==
    [children |-> scene \ Ids(tracked), spawned_nodes |-> <<>>]

\* ----------------------------------------------------------- the inputs
\* state_data["party"]: a known class, an unknown class and location, an
\* empty current_action, and a record with no current_action.
SampleParty ==
    << [id |-> "pm-01", class |-> "ProductManager",
        location |-> "The Swarm Motherland", current_action |-> "Standby"],
       [id |-> "dev-01", class |-> "Warrior",
        location |-> "Code Forge", current_action |-> "Implementing endpoint"],
       [id |-> "rev-01", class |-> "Reviewer",
        location |-> "The Core Empire", current_action |-> ""],
       [id |-> "sec-01", class |-> "Security",
        location |-> "The Security Kingdom"] >>

\* Member ids: the four of the party, then ids with no agent record.
MemberIds ==
    << "pm-01", "dev-01", "rev-01", "sec-01", "ghost-05",
       "ghost-06", "ghost-07", "ghost-08", "ghost-09", "ghost-10" >>

\* Territory names: two with a colour, one without, one with, then Epsilon.
RepoNames ==
    << "The Swarm Motherland", "The Core Empire", "Gamma",
       "The Security Kingdom", "Epsilon" >>

\* The first m member ids.
Swarm(m) == [j \in 1..m |-> MemberIds[((j - 1) % Len(MemberIds)) + 1]]

\* The i-th repository (from 1) with m members.
Repo(i, m) == [name |-> RepoNames[Min2(i, Len(RepoNames))], swarm |-> Swarm(m)]

\* A state with n repositories: the first has m members, the i-th (i > 1)
\* has i mod 3 of them.
GridInput(n, m) ==
    [party |-> SampleParty,
     repositories |-> [i \in 1..n |-> Repo(i, IF i = 1 THEN m ELSE i % 3)]]

\* A state with n repositories of m members each.
GridUniform(n, m) ==
    [party |-> SampleParty, repositories |-> [i \in 1..n |-> Repo(i, m)]]

\* The states update_grid is run on: every territory count, with an empty,
\* a one-member, a full-ring and an overfull first territory; and states whose
\* territories all have a full or the largest ring, one territory per anchor
\* or the largest number of territories.
GridInputs ==
    {GridInput(n, m) : n \in 0..MaxRepos, m \in {0, 1, MaxSwarm - 1, MaxSwarm}}
    \cup {GridUniform(n, m) : n \in {Len(repo_centers), MaxRepos},
                              m \in {Len(agent_offsets), MaxSwarm}}

\* -------------------------------------------------------------- actions
\* update_grid(state_data): clear_grid, then spawn and track the background
\* field, the buildings and the agents; the freed nodes leave the scene.
update_grid(state_data) ==
    /\ passNo < MaxPasses
    /\ LET cleared == clear_grid(children, spawned_nodes)
           nodes == Instantiate(Projection(state_data), passNo + 1)
       IN /\ spawned_nodes' = cleared.spawned_nodes \o nodes
          /\ children' = cleared.children \cup Ids(nodes)
          /\ firstPlacement' = IF passNo = 0 THEN Entities(Shown(nodes))
                                             ELSE firstPlacement
    /\ passNo' = passNo + 1
    /\ lastState' = state_data
    /\ firstState' = IF passNo = 0 THEN state_data ELSE firstState
    /\ UNCHANGED <<vars, vizVars, restVars>>

NextGrid == \E sd \in GridInputs : update_grid(sd)

SpecGrid == Init /\ [][NextGrid]_allVars

\* ========================================================== Main.gd
\* Largest number of responses accepted as updates in one behaviour.
MaxUpdates == 3

\* A body that JSON.parse rejects.
Malformed == [malformed |-> TRUE]

\* HTTPRequest results passed to request_completed.
VizResults == {"RESULT_SUCCESS", "RESULT_CANT_CONNECT", "RESULT_TIMEOUT"}

\* HTTP status codes of a completed request.
VizCodes == {200, 500}

\* The JSON body the server sends with an error status.
ErrorBody == [detail |-> "Internal Server Error"]

\* Bodies of a completed request.
VizBodies == GridInputs \cup {Malformed, ErrorBody}

\* poll_timer timeout (every 5 s): _fetch_game_state.  http.request returns
\* ERR_BUSY, which is only printed, while a request is in progress.
_fetch_game_state ==
    /\ vizBusy' = TRUE
    /\ UNCHANGED <<vizData, vizUpdates, vizLast, vars, gridVars, restVars>>

\* _on_request_completed: return unless result is RESULT_SUCCESS, return if
\* the body does not parse, else print the data.  The scene update is a TODO:
\* HexGrid.update_grid is not called.
_on_request_completed(result, response_code, body) ==
    /\ vizBusy
    /\ vizUpdates < MaxUpdates
    /\ vizBusy' = FALSE
    /\ IF result # "RESULT_SUCCESS" \/ body = Malformed
       THEN UNCHANGED <<vizData, vizUpdates>>
       ELSE /\ vizData' = body
            /\ vizUpdates' = vizUpdates + 1
    /\ vizLast' = [result |-> result, response_code |-> response_code,
                   decoded |-> body # Malformed,
                   taken |-> vizUpdates' # vizUpdates]
    /\ UNCHANGED <<vars, gridVars, restVars>>

NextViz ==
    \/ _fetch_game_state
    \/ \E res \in VizResults, code \in VizCodes, body \in VizBodies :
          _on_request_completed(res, code, body)

SpecViz == Init /\ [][NextViz]_allVars

\* ================================= CharacterCard, QuestLog, guardrail log
\* classConfig: icon, title and colour of each agent class.
classConfig ==
    [c \in {"Bard", "Wizard", "Warrior", "Paladin"} |->
        CASE c = "Bard"    -> [icon |-> "Music",  title |-> "Product Manager", color |-> "text-neon-amber"]
          [] c = "Wizard"  -> [icon |-> "Wand2",  title |-> "Architect",       color |-> "text-neon-purple"]
          [] c = "Warrior" -> [icon |-> "Sword",  title |-> "Coder",           color |-> "text-neon-crimson"]
          [] c = "Paladin" -> [icon |-> "Shield", title |-> "Reviewer",        color |-> "text-neon-green"]]

\* classGlow: glow utility of each agent class.
classGlow ==
    [c \in {"Bard", "Wizard", "Warrior", "Paladin"} |->
        CASE c = "Bard"    -> "neon-glow-amber"
          [] c = "Wizard"  -> "neon-glow-cyan"
          [] c = "Warrior" -> "neon-glow-crimson"
          [] c = "Paladin" -> "neon-glow-green"]

\* difficultyColor: badge classes of each quest difficulty.
difficultyColor ==
    [x \in {"Easy", "Medium", "Hard", "Legendary"} |->
        CASE x = "Easy"      -> "neon-border-green text-neon-green"
          [] x = "Medium"    -> "neon-border-amber text-neon-amber"
          [] x = "Hard"      -> "neon-border-crimson text-neon-crimson"
          [] x = "Legendary" -> "border-neon-purple text-neon-purple"]

\* stages: the columns of the quest board.
stages == <<"Requirements", "Design", "Todo", "In Progress">>

\* severityStyle: text classes of each guardrail severity.
severityStyle ==
    [x \in {"LOW", "MEDIUM", "HIGH", "CRITICAL"} |->
        CASE x = "LOW"      -> "text-muted-foreground"
          [] x = "MEDIUM"   -> "text-neon-amber"
          [] x = "HIGH"     -> "text-neon-crimson"
          [] x = "CRITICAL" -> "text-neon-crimson font-bold"]

\* obj[key] of a JavaScript object literal: undefined for a missing key.
Lookup(obj, key) == IF key \in DOMAIN obj THEN obj[key] ELSE Undefined

\* manaPercent = (agent.stats.mana / 100) * 100: the value itself, up to
\* rounding in the last place of the double.
manaPercent(agent) == agent.stats.mana

\* hpPercent = agent.stats.hp.
hpPercent(agent) == agent.stats.hp

\* Background of the HP bar: green above 70, amber above 40, else red.
hpTone(hp) == IF hp > 70 THEN "green" ELSE IF hp > 40 THEN "amber" ELSE "red"

\* CharacterCard: config = classConfig[agent.class]; Icon = config.icon
\* throws a TypeError when config is undefined, before anything is returned.
\* Otherwise the bars get width: `${manaPercent}%` and `${hpPercent}%`.
CharacterCard(agent) ==
    LET config == Lookup(classConfig, agent.class)
        isActive == agent.current_action # ""
    IN IF config = Undefined
       THEN [component |-> "CharacterCard", props |-> agent, error |-> "TypeError",
             look |-> "", glow |-> "", manaWidth |-> 0, hpWidth |-> 0, tone |-> ""]
       ELSE [component |-> "CharacterCard", props |-> agent, error |-> "none",
             look |-> config.color,
             glow |-> IF isActive THEN classGlow[agent.class] ELSE "",
             manaWidth |-> manaPercent(agent),
             hpWidth |-> hpPercent(agent),
             tone |-> hpTone(hpPercent(agent))]

\* QuestLog, one quest: it is listed in the column of its stage (in none if
\* no column has that stage); the badge gets difficultyColor[difficulty] ?? "".
QuestLog(quest) ==
    [component |-> "QuestLog", props |-> quest, error |-> "none",
        look |-> IF quest.difficulty \in DOMAIN difficultyColor
                 THEN difficultyColor[quest.difficulty] ELSE "",
        glow |-> IF \E k \in 1..Len(stages) : stages[k] = quest.stage
                 THEN quest.stage ELSE "",
        manaWidth |-> 0, hpWidth |-> 0, tone |-> ""]

\* SovereignControls, one guardrail entry: className is the template string
\* `shrink-0 ${severityStyle[entry.severity]}`; undefined prints as a word.
GuardrailRow(entry) ==
    [component |-> "SovereignControls", props |-> entry, error |-> "none",
        look |-> IF entry.severity \in DOMAIN severityStyle
                 THEN severityStyle[entry.severity] ELSE "undefined",
        glow |-> "", manaWidth |-> 0, hpWidth |-> 0, tone |-> ""]

\* --------------------------------------------------------------- inputs
\* Agent classes of a snapshot: the four known ones and one that is not.
CardClasses == {"Bard", "Wizard", "Warrior", "Paladin", "Rogue"}

\* hp and mana of a snapshot: below, inside and above 0..100.
CardVitals == {-20, 0, 55, 100, 150}

\* Agents handed to CharacterCard.
CardAgents ==
    [class : CardClasses, current_action : {"", "Reviewing PR #42"},
     stats : [hp : CardVitals, mana : CardVitals]]

\* Quests handed to QuestLog.
CardQuests ==
    [difficulty : {"Easy", "Medium", "Hard", "Legendary", "Mythic"},
     stage : {"Requirements", "Design", "Todo", "In Progress", "Archived"}]

\* Guardrail entries handed to SovereignControls.
CardEntries == [severity : {"LOW", "MEDIUM", "HIGH", "CRITICAL", "FATAL"}]

\* -------------------------------------------------------------- actions
\* PartySidebar renders the card of an agent of the snapshot.
RenderCard(agent) ==
    /\ rendered' = CharacterCard(agent)
    /\ UNCHANGED <<vars, gridVars, vizVars, graphVars, serveVars>>

\* QuestLog renders a quest of the snapshot.
RenderQuest(quest) ==
    /\ rendered' = QuestLog(quest)
    /\ UNCHANGED <<vars, gridVars, vizVars, graphVars, serveVars>>

\* SovereignControls renders an entry of the guardrail log.
RenderEntry(entry) ==
    /\ rendered' = GuardrailRow(entry)
    /\ UNCHANGED <<vars, gridVars, vizVars, graphVars, serveVars>>

NextRender ==
    \/ \E agent \in CardAgents : RenderCard(agent)
    \/ \E quest \in CardQuests : RenderQuest(quest)
    \/ \E entry \in CardEntries : RenderEntry(entry)

SpecRender == Init /\ [][NextRender]_allVars

\* ==================================================== KnowledgeGraph
\* ---------------------------------------------------------------- bounds
\* Largest number of graph instances created in one behaviour.
MaxGraphs == 3

\* ------------------------------------------------------------- constants
\* minZoom: 0.3, in hundredths.
minZoom == 30

\* maxZoom: 3, in hundredths.
maxZoom == 300

\* The stylesheet passed to cytoscape, node rules in their order (the edge
\* rule matches no node).
NodeStyleRules ==
    << [selector |-> "node",
        style |-> [bordercolor |-> "#00e5ff", borderwidth |-> 2,
                   backgroundcolor |-> "#0d1117"]],
       [selector |-> "node[?active]",
        style |-> [bordercolor |-> "#00e5ff", borderwidth |-> 3,
                   backgroundcolor |-> "rgba(0, 229, 255, 0.15)"]],
       [selector |-> "node:selected",
        style |-> [bordercolor |-> "#00e5ff", borderwidth |-> 4,
                   backgroundcolor |-> "rgba(0, 229, 255, 0.25)"]] >>

\* Whether a node with this active flag and selection state matches.
Matches(selector, active, selected) ==
    CASE selector = "node" -> TRUE
      [] selector = "node[?active]" -> active
      [] selector = "node:selected" -> selected

\* A later rule's properties override an earlier rule's.
RECURSIVE ApplyRules(_, _, _, _)
ApplyRules(rules, k, active, selected) ==
    IF k = 0 THEN [bordercolor |-> "", borderwidth |-> 0, backgroundcolor |-> ""]
    ELSE IF Matches(rules[k].selector, active, selected)
         THEN rules[k].style
         ELSE ApplyRules(rules, k - 1, active, selected)

\* The resolved style of a node: every node rule sets the same three
\* properties, so the last matching rule decides all of them.
ResolvedStyle(active, selected) ==
    ApplyRules(NodeStyleRules, Len(NodeStyleRules), active, selected)

\* Variant without the bounds.
boundZoom_unbounded(z) == z

\* cytoscape keeps every zoom it is asked for within minZoom..maxZoom.
boundZoom(z) == Min2(Max2(z, minZoom), maxZoom)

\* Variant that leaves the instance alive.
destroy_noop(live, ref) == live

\* cy.destroy(): the instance is no longer live (no effect on null or on an
\* instance destroyed before).
destroy(live, ref) == live \ {ref}

\* cy.on("tap", "node"): setSelectedNode(e.target.data()).
nodeTap(sel, nodeData) == nodeData

\* Variant that clears the selection on every tap.
coreTap_noTargetCheck(sel, target) == Null

\* cy.on("tap"): if (e.target === cy) setSelectedNode(null).  The tap on an
\* element reaches this handler too, with the element as target.
coreTap(sel, target) == IF target = "core" THEN Null ELSE sel

\* --------------------------------------------------------------- inputs
\* Graph data of two successive polls: n1 is active in the first only.
GraphA ==
    [nodes |-> { [id |-> "n1", label |-> "Orchestrator", active |-> TRUE],
                 [id |-> "n2", label |-> "Coder", active |-> FALSE] },
     edges |-> { [id |-> "e1", source |-> "n1", target |-> "n2"] }]

GraphB ==
    [nodes |-> { [id |-> "n1", label |-> "Orchestrator", active |-> FALSE],
                 [id |-> "n3", label |-> "Reviewer", active |-> TRUE] },
     edges |-> {}]

GraphDatas == {GraphA, GraphB}

\* Zoom levels (hundredths) at which the whole graph fits the viewport.
FitZooms == {10, 100, 500}

\* The latest two taps.
Last2(seq) == IF Len(seq) <= 2 THEN seq ELSE SubSeq(seq, Len(seq) - 1, Len(seq))

\* -------------------------------------------------------------- actions
\* initGraph after the previous effect's cleanup: destroy the instance of
\* cyRef (cleanup, then initGraph again), build one from graphData, lay it
\* out (cose fits the viewport) and point cyRef at it.
EffectRun(gd, fit) ==
    /\ cyMade < MaxGraphs
    /\ cyLive' = destroy(destroy(cyLive, cyRef), cyRef) \cup {cyMade + 1}
    /\ cyRef' = cyMade + 1
    /\ cyMade' = cyMade + 1
    /\ cyGraph' = gd
    /\ cySelected' = {}
    /\ zoom' = boundZoom(fit)

\* A poll delivers different graph data: the effect's cleanup and initGraph
\* run.  selectedNode is component state and stays.
GraphUpdate(gd, fit) ==
    /\ mounted
    /\ gd # graphProp
    /\ graphProp' = gd
    /\ EffectRun(gd, fit)
    /\ UNCHANGED <<mounted, selectedNode, taps>>
    /\ UNCHANGED <<vars, gridVars, vizVars, renderVars, serveVars>>

\* The component unmounts: the effect's cleanup destroys the instance.
Unmount ==
    /\ mounted
    /\ mounted' = FALSE
    /\ cyLive' = destroy(cyLive, cyRef)
    /\ UNCHANGED <<graphProp, cyRef, cyMade, cyGraph, selectedNode, cySelected, zoom, taps>>
    /\ UNCHANGED <<vars, gridVars, vizVars, renderVars, serveVars>>

\* The component mounts again: fresh refs and state, then the effect.
Mount(fit) ==
    /\ ~mounted
    /\ mounted' = TRUE
    /\ selectedNode' = Null
    /\ taps' = <<>>
    /\ IF graphProp = Undefined
       THEN /\ cyRef' = 0
            /\ cyGraph' = Undefined
            /\ cySelected' = {}
            /\ UNCHANGED <<cyLive, cyMade, zoom>>
       ELSE /\ cyMade < MaxGraphs
            /\ cyLive' = cyLive \cup {cyMade + 1}
            /\ cyRef' = cyMade + 1
            /\ cyMade' = cyMade + 1
            /\ cyGraph' = graphProp
            /\ cySelected' = {}
            /\ zoom' = boundZoom(fit)
    /\ UNCHANGED graphProp
    /\ UNCHANGED <<vars, gridVars, vizVars, renderVars, serveVars>>

\* An instance is on screen.
GraphShown == mounted /\ cyRef \in cyLive

\* Tap on a node: the node handler, then the core handler.
TapNode(n) ==
    /\ GraphShown
    /\ n \in cyGraph.nodes
    /\ selectedNode' = coreTap(nodeTap(selectedNode, n), "node")
    /\ cySelected' = {n.id}
    /\ taps' = Last2(Append(taps, [kind |-> "node", data |-> n]))
    /\ UNCHANGED <<graphProp, mounted, cyRef, cyLive, cyMade, cyGraph, zoom>>
    /\ UNCHANGED <<vars, gridVars, vizVars, renderVars, serveVars>>

\* Tap on an edge: only the core handler runs, with the edge as target.
TapEdge(e) ==
    /\ GraphShown
    /\ e \in cyGraph.edges
    /\ selectedNode' = coreTap(selectedNode, "edge")
    /\ cySelected' = {e.id}
    /\ UNCHANGED <<graphProp, mounted, cyRef, cyLive, cyMade, cyGraph, zoom, taps>>
    /\ UNCHANGED <<vars, gridVars, vizVars, renderVars, serveVars>>

\* Tap on the empty canvas: the core handler with the core as target.
TapCanvas ==
    /\ GraphShown
    /\ selectedNode' = coreTap(selectedNode, "core")
    /\ cySelected' = {}
    /\ taps' = Last2(Append(taps, [kind |-> "canvas", data |-> Null]))
    /\ UNCHANGED <<graphProp, mounted, cyRef, cyLive, cyMade, cyGraph, zoom>>
    /\ UNCHANGED <<vars, gridVars, vizVars, renderVars, serveVars>>

\* Zoom-in button: cy.zoom(cy.zoom() * 1.3).
ZoomIn ==
    /\ GraphShown
    /\ zoom' = boundZoom((zoom * 13) \div 10)
    /\ UNCHANGED <<graphProp, mounted, cyRef, cyLive, cyMade, cyGraph,
                   selectedNode, cySelected, taps>>
    /\ UNCHANGED <<vars, gridVars, vizVars, renderVars, serveVars>>

\* Zoom-out button: cy.zoom(cy.zoom() * 0.7).
ZoomOut ==
    /\ GraphShown
    /\ zoom' = boundZoom((zoom * 7) \div 10)
    /\ UNCHANGED <<graphProp, mounted, cyRef, cyLive, cyMade, cyGraph,
                   selectedNode, cySelected, taps>>
    /\ UNCHANGED <<vars, gridVars, vizVars, renderVars, serveVars>>

\* Fit button: cy.fit(undefined, 40).
Fit(fit) ==
    /\ GraphShown
    /\ zoom' = boundZoom(fit)
    /\ UNCHANGED <<graphProp, mounted, cyRef, cyLive, cyMade, cyGraph,
                   selectedNode, cySelected, taps>>
    /\ UNCHANGED <<vars, gridVars, vizVars, renderVars, serveVars>>

NextGraph ==
    \/ \E gd \in GraphDatas, fit \in FitZooms : GraphUpdate(gd, fit)
    \/ Unmount
    \/ \E fit \in FitZooms : Mount(fit)
    \/ \E n \in UNION {g.nodes : g \in GraphDatas} : TapNode(n)
    \/ \E e \in UNION {g.edges : g \in GraphDatas} : TapEdge(e)
    \/ TapCanvas
    \/ ZoomIn
    \/ ZoomOut
    \/ \E fit \in FitZooms : Fit(fit)

SpecGraph == Init /\ [][NextGraph]_allVars

\* ======================================================== vite.config.ts
\* securityHeaders.
securityHeaders ==
    [h \in {"Cross-Origin-Opener-Policy", "Cross-Origin-Embedder-Policy",
            "Cross-Origin-Resource-Policy"} |->
        CASE h = "Cross-Origin-Opener-Policy"   -> "same-origin"
          [] h = "Cross-Origin-Embedder-Policy" -> "require-corp"
          [] h = "Cross-Origin-Resource-Policy" -> "cross-origin"]

\* No headers configured.
NoHeaders == [h \in {} |-> ""]

\* isDevelopmentMode.
isDevelopmentMode(mode) == mode = "development"

\* Variant whose preview section configures no headers.
viteConfig_devOnly(mode) ==
    [server |-> [headers |-> securityHeaders],
     preview |-> [headers |-> NoHeaders],
     plugins |-> IF isDevelopmentMode(mode) THEN {"react", "componentTagger"}
                                            ELSE {"react"}]

\* defineConfig(({ mode }) => ...): the mode decides the plugins only.
viteConfig(mode) ==
    [server |-> [headers |-> securityHeaders],
     preview |-> [headers |-> securityHeaders],
     plugins |-> IF isDevelopmentMode(mode) THEN {"react", "componentTagger"}
                                            ELSE {"react"}]

\* Headers b added to headers a (b wins).
WithHeaders(a, b) ==
    [h \in DOMAIN a \cup DOMAIN b |-> IF h \in DOMAIN b THEN b[h] ELSE a[h]]

\* What the handler of a path answers with: its Content-Type.
ContentType(path) ==
    IF path \in {"/godot/index.js", "/src/main.tsx", "/assets/index.js"}
    THEN "text/javascript" ELSE "text/html"

\* A response of a server started from the configuration: the handler's
\* headers and the headers configured for that server.
Respond(kind, mode, path) ==
    [server |-> kind, mode |-> mode, path |-> path, status |-> 200,
     headers |-> WithHeaders([h \in {"Content-Type"} |-> ContentType(path)],
                             viteConfig(mode)[kind].headers)]

\* --------------------------------------------------------------- inputs
ServerKinds == {"server", "preview"}

ViteModes == {"development", "production", "test"}

\* Pages, modules and the embedded renderer's script.
ServedPaths == {"/", "/godot/index.js", "/src/main.tsx", "/assets/index.js"}

\* -------------------------------------------------------------- actions
\* The dev server (kind "server") or the preview server answers a request.
Serve(kind, mode, path) ==
    /\ responses' = Last2(Append(responses, Respond(kind, mode, path)))
    /\ UNCHANGED <<vars, gridVars, vizVars, renderVars, graphVars>>

NextServe ==
    \E kind \in ServerKinds, mode \in ViteModes, path \in ServedPaths :
        Serve(kind, mode, path)

SpecServe == Init /\ [][NextServe]_allVars

\* ================================================================ claims

C2_LastKnownGood ==
    \A r \in Resources :
        /\ (lastOp.op = "PollResolve" /\ lastOp.r = r /\ lastOp.outcome # "ok"
                /\ lastGood[r] # Undefined)
              => data[r] = lastGood[r]
        /\ data[r] = Fallback(r) => lastGood[r] = Undefined

\* C3 (as claimed): per resource, isLive (= not isError) is true after a
\* tick that succeeded and false after a tick that failed.
C3_LiveTracksLastTick ==
    \A r \in Resources :
        /\ lastTick[r] = "ok" => ~isError[r]
        /\ lastTick[r] = "fail" => isError[r]

\* C4 (as claimed): the header shows MOCK (isConnected false) if and only if
\* the most recent tick of game-state or of graph-data failed.
C4_ConnectedIffBothLive ==
    (HeaderLabel = "MOCK") <=> (lastTick[GS] = "fail" \/ lastTick[GD] = "fail")

C6_ServerStatusApplied ==
    (lastOp.op = "HaltResolve" /\ lastOp.outcome = "ok" /\ data[GS] # Undefined)
        => data[GS].system_status = lastOp.status

\* C6 (amended): after a halt whose transport succeeded, the cached system
\* status is HALTED whatever status the response carries.
C6_HaltSuccessSetsHalted ==
    (lastOp.op = "HaltResolve" /\ lastOp.outcome = "ok" /\ data[GS] # Undefined)
        => data[GS].system_status = "HALTED"

\* C6 witness: the server answered 2xx with a status other than HALTED.
C6_Witness ==
    /\ lastOp.op = "HaltResolve" /\ lastOp.outcome = "ok"
    /\ lastOp.status = "DEGRADED"
    /\ data[GS] # Undefined /\ data[GS].system_status = "HALTED"

\* C7 (as claimed): after a halt whose transport failed, the cached status
\* stays HALTED (the overlay stays shown) for as long as no poll of the game
\* state succeeds.
C7_HaltedPersists == haltFailed => isHalted

\* C8: a mission assignment attempted with agent, repo or task empty shows
\* the validation toast (not the transport-failure one), issues no request
\* and changes neither the cache nor the form.
C8_ValidationRejectsLocally ==
    [][(lastOp'.op = "handleAssign"
            /\ (selectedAgent = "" \/ selectedRepo = "" \/ missionTask = ""))
        => /\ toast' = ValidationToast
           /\ toast' # FailureToast
           /\ assignPending' = FALSE
           /\ UNCHANGED <<data, inflight, isInvalidated, isError,
                          selectedAgent, selectedRepo, missionTask>>]_vars

\* C8 witness: Deploy Agent was pressed with agent and repo chosen and the
\* task left empty.
C8_Witness ==
    /\ lastOp.op = "handleAssign"
    /\ selectedAgent # "" /\ selectedRepo # "" /\ missionTask = ""
    /\ toast = ValidationToast /\ ~assignPending

\* C9: a successful mission assignment leaves the cached snapshots as they
\* are, marks the game-state query stale and issues a re-fetch of it.
C9_AssignSuccessRefetches ==
    [][(lastOp'.op = "AssignResolve" /\ lastOp'.outcome = "ok")
        => /\ data' = data
           /\ isInvalidated'[GS]
           /\ inflight'[GS] >= 1
           /\ inflight[GS] = 0 => inflight'[GS] = 1
           /\ inflight'[GD] = inflight[GD]]_vars

\* C9 witness: an assignment succeeded while no game-state request was in
\* flight, and its re-fetch is now pending over an unchanged snapshot.
C9_Witness ==
    /\ lastOp.op = "AssignResolve" /\ lastOp.outcome = "ok"
    /\ inflight[GS] = 1 /\ isInvalidated[GS]
    /\ data[GS] \in ServerGameStates
    /\ toast = SuccessToast

\* C10: a mission assignment whose transport failed shows the failure toast,
\* issues no re-fetch and changes neither the cache nor the form fields.
C10_AssignFailureMutatesNothing ==
    [][(lastOp'.op = "AssignResolve" /\ lastOp'.outcome # "ok")
        => /\ toast' = FailureToast
           /\ UNCHANGED <<data, inflight, isInvalidated,
                          selectedAgent, selectedRepo, missionTask>>]_vars

\* C10 witness: POST /mission/assign was answered with a non-2xx status.
C10_Witness ==
    /\ lastOp.op = "AssignResolve" /\ lastOp.outcome = "http"
    /\ toast = FailureToast
    /\ selectedAgent # "" /\ selectedRepo # "" /\ missionTask # ""
    /\ ~isInvalidated[GS]

\* C11 (as claimed): whenever the cached system status is HALTED the
\* interdiction overlay is rendered and activating the halt control issues
\* no POST /halt.
C11_HaltInertWhenHalted ==
    isHalted => (overlayShown /\ lastOp.op # "HaltPress")

\* C12 (as claimed): while the cached system status is HALTED no
\* mission-assignment request is issued from the Citadel controls.
C12_NoAssignWhenHalted ==
    isHalted => ~(lastOp.op = "handleAssign" /\ assignPending)

\* ------------------------------------------------------- grid observations
\* The territories of the state the last pass ran on.
Repos == Get(lastState, "repositories", <<>>)

\* The buildings, tokens and labels in the scene, in spawn order.
Placed == Entities(Shown(spawned_nodes))

\* Number of entities spawned for the first i territories: a building and its
\* label, then a token and its label per member.
RECURSIVE EntitiesBefore(_)
EntitiesBefore(i) ==
    IF i = 0 THEN 0 ELSE EntitiesBefore(i - 1) + 2 + 2 * Len(Repos[i].swarm)

\* Where the building of territory i (from 1) stands in Placed.
BuildingAt(i) == EntitiesBefore(i - 1) + 1

\* Where the token of member j (from 1) of territory i stands in Placed.
TokenAt(i, j) == BuildingAt(i) + 2 * j

\* Number of nodes of a kind in the scene.
CountKind(kind) ==
    Cardinality({k \in 1..Len(spawned_nodes) : spawned_nodes[k].d.kind = kind})

\* Number of members listed over all territories.
RECURSIVE MembersUpTo(_)
MembersUpTo(i) == IF i = 0 THEN 0 ELSE MembersUpTo(i - 1) + Len(Repos[i].swarm)

\* C13: running update_grid on the state the first pass ran on, whatever the
\* grid held in between, yields the placement of the first pass again.
C13_SameStateSamePlacement ==
    (passNo >= 1 /\ lastState = firstState) => Placed = firstPlacement

\* C13 witness: a third pass on the first state, with territories and agents.
C13_Witness ==
    /\ passNo = 3
    /\ lastState = firstState
    /\ Len(Repos) >= 2
    /\ Len(Repos[1].swarm) >= 1
    /\ Placed = firstPlacement

\* C14: the j-th member (from 0) of a territory stands on the anchor plus
\* ring[j mod 6]; a seventh member stands on the cell of the first.
C14_AgentOnRing ==
    passNo >= 1 =>
        \A i \in 1..Len(Repos) : \A j \in 1..Len(Repos[i].swarm) :
            LET anchor == Placed[BuildingAt(i)]
                token == Placed[TokenAt(i, j)]
                off == agent_offsets[((j - 1) % 6) + 1]
            IN /\ token.kind = "agent"
               /\ token.q = anchor.q + off[1]
               /\ token.r = anchor.r + off[2]
               /\ j >= 7 => /\ token.q = Placed[TokenAt(i, j - 6)].q
                            /\ token.r = Placed[TokenAt(i, j - 6)].r

\* C14 witness: a territory with seven members, the seventh on the cell of
\* the first.
C14_Witness ==
    /\ passNo >= 1
    /\ Len(Repos) >= 1
    /\ Len(Repos[1].swarm) = 7
    /\ Placed[TokenAt(1, 7)].kind = "agent"
    /\ Placed[TokenAt(1, 7)].q = Placed[TokenAt(1, 1)].q
    /\ Placed[TokenAt(1, 7)].r = Placed[TokenAt(1, 1)].r

\* C15: the i-th territory (from 0) is anchored at centers[i mod 4]; a fifth
\* territory gets the anchor of the first.
C15_TerritoryAnchor ==
    passNo >= 1 =>
        /\ Len(repo_centers) = 4
        /\ \A i \in 1..Len(Repos) :
              LET b == Placed[BuildingAt(i)]
                  c == repo_centers[((i - 1) % 4) + 1]
              IN /\ b.kind = "building"
                 /\ b.q = c[1]
                 /\ b.r = c[2]
                 /\ i >= 5 => /\ b.q = Placed[BuildingAt(i - 4)].q
                              /\ b.r = Placed[BuildingAt(i - 4)].r

\* C15 witness: five territories, Epsilon built on the anchor of the first.
C15_Witness ==
    /\ passNo >= 1
    /\ Len(Repos) = 5
    /\ Repos[5].name = "Epsilon"
    /\ Placed[BuildingAt(5)].kind = "building"
    /\ Placed[BuildingAt(5)].q = Placed[BuildingAt(1)].q
    /\ Placed[BuildingAt(5)].r = Placed[BuildingAt(1)].r

\* C16: after a pass the tracked nodes are the nodes that pass created, and
\* the scene holds no other spawned node.
C16_TrackedAreThisPass ==
    passNo >= 1 =>
        /\ \A k \in 1..Len(spawned_nodes) : spawned_nodes[k].uid[1] = passNo
        /\ Shown(spawned_nodes) = Projection(lastState)
        /\ children = Ids(spawned_nodes)
        /\ Cardinality(children) = Len(spawned_nodes)

\* C16 witness: a later pass that places fewer entities than the first did.
C16_Witness ==
    /\ passNo >= 2
    /\ Len(Placed) < Len(firstPlacement)
    /\ children = Ids(spawned_nodes)

\* C17: every game-state update Main.gd receives and decodes is followed by
\* one update_grid pass: passes and accepted updates keep the same count.
C17_OnePassPerUpdate == passNo = vizUpdates

\* The agent record of a member id in the party of the last state, if any.
PartyRecords(id) ==
    LET party == Get(lastState, "party", <<>>)
    IN {party[k] : k \in {n \in 1..Len(party) : Get(party[n], "id", "") = id}}

\* The current action of a member: empty when no record gives one.
ActionOf(id) ==
    IF PartyRecords(id) = {} THEN ""
    ELSE Get(CHOOSE a \in PartyRecords(id) : TRUE, "current_action", "")

\* C18: the label of an agent whose current action is empty or the idle
\* phrase is YELLOW (muted); the label of any other agent is GREEN_YELLOW.
C18_IdleAgentsMuted ==
    passNo >= 1 =>
        \A i \in 1..Len(Repos) : \A j \in 1..Len(Repos[i].swarm) :
            Placed[TokenAt(i, j) + 1].color =
                IF ActionOf(Repos[i].swarm[j]) \in {"", "Standby"}
                THEN "YELLOW" ELSE "GREEN_YELLOW"

\* C19: a name without a colour gets the neutral tower, a class without an
\* asset or a member without a record gets the default token (an unknown
\* member is labelled Unknown, Standby), and the pass places one building
\* per territory and one token per listed member.
C19_UnknownsGetDefaults ==
    passNo >= 1 =>
        /\ CountKind("building") = Len(Repos)
        /\ CountKind("agent") = MembersUpTo(Len(Repos))
        /\ \A i \in 1..Len(Repos) :
              /\ Repos[i].name \notin DOMAIN COUNTRY_COLORS
                    => Placed[BuildingAt(i)].asset = "building_tower_A_neutral.gltf"
              /\ \A j \in 1..Len(Repos[i].swarm) :
                    LET recs == PartyRecords(Repos[i].swarm[j])
                        token == Placed[TokenAt(i, j)]
                        label == Placed[TokenAt(i, j) + 1]
                    IN /\ recs = {} => /\ token.asset = "Barbarian.glb"
                                       /\ label.text = <<"Unknown", "Standby">>
                       /\ \A a \in recs :
                             Get(a, "class", "Default") \notin DOMAIN AGENT_ASSET_TEMPLATES
                                => token.asset = "Barbarian.glb"

\* C19 witness: a pass over a territory with no colour, an agent of an
\* unknown class and a member with no record, all three placed.
C19_Witness ==
    /\ passNo >= 1
    /\ Len(Repos) >= 3
    /\ Repos[3].name = "Gamma"
    /\ Placed[BuildingAt(3)].asset = "building_tower_A_neutral.gltf"
    /\ Len(Repos[1].swarm) >= 5
    /\ Repos[1].swarm[2] = "dev-01"
    /\ Placed[TokenAt(1, 2)].asset = "Barbarian.glb"
    /\ PartyRecords(Repos[1].swarm[5]) = {}
    /\ Placed[TokenAt(1, 5) + 1].text = <<"Unknown", "Standby">>

\* C20: with no territory the scene is the background field alone, 91 grass
\* tiles within five cells of the origin; a territory with no member gets a
\* building and no token.
C20_EmptyListsGiveBareField ==
    passNo >= 1 =>
        /\ Repos = <<>> =>
              /\ Placed = <<>>
              /\ Len(spawned_nodes) = 91
              /\ Cardinality({<<spawned_nodes[k].d.q, spawned_nodes[k].d.r>> :
                                 k \in 1..Len(spawned_nodes)}) = 91
              /\ \A k \in 1..Len(spawned_nodes) :
                    LET t == spawned_nodes[k].d
                    IN /\ t.kind = "tile"
                       /\ t.q \in -5..5 /\ t.r \in -5..5 /\ t.q + t.r \in -5..5
        /\ CountKind("tile") = 91
        /\ (\A i \in 1..Len(Repos) : Repos[i].swarm = <<>>)
              => (CountKind("agent") = 0 /\ Len(Placed) = 2 * Len(Repos))

\* C20 witness: a pass on a state with no territory, after a pass that
\* placed some, leaves the bare field.
C20_Witness ==
    /\ passNo >= 2
    /\ firstPlacement # <<>>
    /\ Repos = <<>>
    /\ Placed = <<>>
    /\ Len(spawned_nodes) = 91

Outstanding(r) == inflight[r] > 0

\* C27 (as claimed): with fair timers, requests of both resources keep being
\* issued forever: again and again none is outstanding and then one is.
C27_PollingNeverStops ==
    \A r \in Resources : []<>(~Outstanding(r)) /\ []<>Outstanding(r)

\* C28: a poll that succeeds leaves the cache holding the server's response
\* itself, whatever was cached before.
C28_PollReplacesWholesale ==
    [][\A r \in Resources :
          (lastOp'.op = "PollResolve" /\ lastOp'.r = r /\ lastOp'.outcome = "ok")
             => data'[r] = lastGood'[r]]_allVars

\* C28 witness: the cache said HALTED, the poll answered OPERATIONAL, and
\* the cache now is that answer.
C28_Witness ==
    /\ lastOp = Op("PollResolve", GS, "ok", "HALTED")
    /\ data[GS] = lastGood[GS]
    /\ data[GS].system_status = "OPERATIONAL"

\* C21 (as claimed): rendering a row of a snapshot never raises an error,
\* whatever enum values the row carries.
C21_UnknownEnumsRenderNeutral ==
    rendered # NoState => rendered.error = "none"

\* C29 (as claimed): the extents of the mana and hp bars of a card are the
\* agent's mana and hp clamped to 0..100.
C29_VitalsClamped ==
    (rendered # NoState /\ rendered.component = "CharacterCard"
        /\ rendered.error = "none")
    => /\ rendered.manaWidth = Min2(Max2(rendered.props.stats.mana, 0), 100)
       /\ rendered.hpWidth = Min2(Max2(rendered.props.stats.hp, 0), 100)

\* C22: the selection is the data of the node tapped last, and it is null
\* when the canvas was tapped last; a node tapped earlier leaves no trace.
C22_SingleSelection ==
    taps # <<>> =>
        LET last == taps[Len(taps)]
        IN /\ last.kind = "node" => selectedNode = last.data
           /\ last.kind = "canvas" => selectedNode = Null

\* C22 witness: n1 was tapped, then n2, and n2 is the selection.
C22_Witness ==
    /\ Len(taps) = 2
    /\ taps[1].kind = "node" /\ taps[1].data.id = "n1"
    /\ taps[2].kind = "node" /\ taps[2].data.id = "n2"
    /\ selectedNode # Null
    /\ selectedNode.id = "n2"

\* C23: at most one graph instance is live; while the component is mounted
\* with data it is the one built last, from the current node and edge
\* arrays; after unmount none is live.
C23_OneLiveGraph ==
    /\ Cardinality(cyLive) <= 1
    /\ ~mounted => cyLive = {}
    /\ (mounted /\ graphProp # Undefined)
          => (cyLive = {cyMade} /\ cyRef = cyMade /\ cyGraph = graphProp)

\* C23 witness: a third instance was built from new data and is the only
\* live one.
C23_Witness ==
    /\ mounted
    /\ cyMade = 3
    /\ cyLive = {3}
    /\ cyGraph = graphProp
    /\ graphProp = GraphB

\* C24: the zoom level of the graph stays within 0.3 and 3.0.
C24_ZoomWithinBounds ==
    cyMade >= 1 => (zoom >= 30 /\ zoom <= 300)

\* C24 witness: the zoom sits at the upper bound, where zoom-in leaves it.
C24_Witness ==
    /\ GraphShown
    /\ zoom = 300
    /\ (zoom * 13) \div 10 > 300

\* C25 (as claimed): the style of a node that is selected and active differs
\* from the style of a selected inactive node and from the style of an
\* unselected active node.
C25_SelectedAndActiveCompose ==
    GraphShown =>
        \A n \in cyGraph.nodes :
            (n.active /\ n.id \in cySelected)
               => /\ ResolvedStyle(TRUE, TRUE) # ResolvedStyle(FALSE, TRUE)
                  /\ ResolvedStyle(TRUE, TRUE) # ResolvedStyle(TRUE, FALSE)

\* C30: every response of the dev server and of the preview server carries
\* the three cross-origin headers with their values.
C30_CrossOriginHeaders ==
    \A k \in 1..Len(responses) :
        LET hs == responses[k].headers
        IN /\ "Cross-Origin-Opener-Policy" \in DOMAIN hs
           /\ hs["Cross-Origin-Opener-Policy"] = "same-origin"
           /\ "Cross-Origin-Embedder-Policy" \in DOMAIN hs
           /\ hs["Cross-Origin-Embedder-Policy"] = "require-corp"
           /\ "Cross-Origin-Resource-Policy" \in DOMAIN hs
           /\ hs["Cross-Origin-Resource-Policy"] = "cross-origin"

\* C30 witness: the dev server in test mode served /godot/index.js and the
\* preview server served a page, both with the headers.
C30_Witness ==
    /\ Len(responses) = 2
    /\ responses[1].server = "server" /\ responses[1].mode = "test"
    /\ responses[1].path = "/godot/index.js"
    /\ responses[1].headers["Cross-Origin-Embedder-Policy"] = "require-corp"
    /\ responses[2].server = "preview"
    /\ responses[2].headers["Cross-Origin-Opener-Policy"] = "same-origin"

\* C31: in Main.gd a completed request that is a transport failure, carries a
\* status code outside 200..299 or has a body that does not parse is not taken
\* as a game-state update, and the HTTPRequest node is free for the next tick.
C31_FailuresAreNotUpdates ==
    (vizLast.result # "-" /\ ~vizBusy) =>
        ((\/ vizLast.result # "RESULT_SUCCESS"
          \/ vizLast.response_code \notin 200..299
          \/ ~vizLast.decoded) => ~vizLast.taken)

\* C32: the step that settles a halt request changes nothing but the system
\* status of the cached game state: the rest of the snapshot (budget, party,
\* quests, guardrail log, repositories) and the cached graph data stay as
\* they were.
C32_HaltChangesOnlyStatus ==
    [][(haltPending /\ ~haltPending') =>
          /\ data'[GD] = data[GD]
          /\ (data[GS] # Undefined =>
                 /\ data'[GS] # Undefined
                 /\ [data'[GS] EXCEPT !.system_status = data[GS].system_status]
                        = data[GS])]_allVars

\* C32 witness: a halt was settled over a snapshot fetched from the server;
\* the snapshot is HALTED and still carries the server's content, and graph
\* data is cached.
C32_Witness ==
    /\ lastOp.op = "HaltResolve"
    /\ data[GS] # Undefined
    /\ data[GS].system_status = "HALTED" /\ data[GS].body = "live"
    /\ data[GD] # Undefined

\* C33: the step that settles a halt request while no game-state snapshot is
\* cached leaves the cache empty: no snapshot is created and the page is not
\* halted.
C33_HaltWithoutSnapshotIsNoOp ==
    [][(haltPending /\ ~haltPending' /\ data[GS] = Undefined) =>
          (data'[GS] = Undefined /\ ~isHalted')]_allVars

\* C33 witness: a halt the server accepted was settled before any game-state
\* response arrived, and the cache is still empty.
C33_Witness ==
    /\ lastOp.op = "HaltResolve" /\ lastOp.outcome = "ok"
    /\ data[GS] = Undefined
    /\ ~overlayShown

\* C34: a halt is issued only while no halt request is pending and an
\* assignment only while no assignment is pending, so each command kind has
\* at most one request in flight.
C34_OneRequestPerCommand ==
    [][/\ (lastOp' # lastOp /\ lastOp'.op = "HaltPress") =>
              (~haltPending /\ haltPending')
       /\ (lastOp' # lastOp /\ lastOp'.op = "handleAssign") => ~assignPending]_allVars

\* C34 witness: a halt and an assignment are pending together and both
\* controls are disabled.
C34_Witness ==
    /\ haltPending /\ haltDisabled
    /\ assignPending /\ deployDisabled

\* Distance of cell (q, r) from the origin: max(|q|, |r|, |q + r|).
HexNorm(q, r) == Max2(Max2(Max2(q, -q), Max2(r, -r)), Max2(q + r, -(q + r)))

\* The cells within BaseRadius + 2 of the origin.
FieldCells ==
    {c \in (-(BaseRadius + 2)..(BaseRadius + 2)) \X (-(BaseRadius + 2)..(BaseRadius + 2)) :
        HexNorm(c[1], c[2]) <= BaseRadius + 2}

\* The cells of the tiles in the scene.
TileCells ==
    {<<spawned_nodes[k].d.q, spawned_nodes[k].d.r>> :
        k \in {n \in 1..Len(spawned_nodes) : spawned_nodes[n].d.kind = "tile"}}

\* The buildings and agent tokens in the scene, in spawn order.
Figures == SelectSeq(Placed, LAMBDA d : d.kind \in {"building", "agent"})

\* C35: after every pass the tracked nodes are 91 tiles, one on each cell
\* with max(|q|,|r|,|q+r|) <= 5, plus two nodes per territory and two per
\* member-list entry of the last state; earlier passes add nothing.
C35_TrackedCountFromLastState ==
    passNo >= 1 =>
        /\ Len(spawned_nodes) = 91 + 2 * Len(Repos) + 2 * MembersUpTo(Len(Repos))
        /\ CountKind("tile") = 91
        /\ TileCells = FieldCells
        /\ \A q \in -6..6, r \in -6..6 :
              (<<q, r>> \in TileCells) <=> HexNorm(q, r) <= 5

\* C35 witness: a third pass on a state with fewer territories and members
\* than the state of the first pass.
C35_Witness ==
    /\ passNo = 3
    /\ Len(Repos) >= 1
    /\ MembersUpTo(Len(Repos)) >= 1
    /\ Len(Placed) < Len(firstPlacement)
    /\ Len(spawned_nodes) = 91 + Len(Placed)

\* C36: every building and every agent token stands on a cell of the
\* background field: its cell holds a tile and has max(|q|,|r|,|q+r|) <= 5.
C36_FiguresOnTheField ==
    passNo >= 1 =>
        \A k \in 1..Len(Figures) :
            /\ HexNorm(Figures[k].q, Figures[k].r) <= 5
            /\ <<Figures[k].q, Figures[k].r>> \in TileCells

\* C36 witness: every anchor is used and every ring is full or overfull;
\* the outermost token is four cells from the origin.
C36_Witness ==
    /\ passNo >= 1
    /\ Len(Repos) > Len(repo_centers)
    /\ \A i \in 1..Len(Repos) : Len(Repos[i].swarm) > Len(agent_offsets)
    /\ \E k \in 1..Len(Figures) :
          Figures[k].kind = "agent" /\ HexNorm(Figures[k].q, Figures[k].r) = 4

\* C37: with at most four territories of at most six members each, no two
\* of the buildings and agent tokens placed share a cell.
C37_NoOverlapWithinCapacity ==
    (/\ passNo >= 1
     /\ Len(Repos) <= 4
     /\ \A i \in 1..Len(Repos) : Len(Repos[i].swarm) <= 6) =>
        /\ Len(Figures) = Len(Repos) + MembersUpTo(Len(Repos))
        /\ \A a, b \in 1..Len(Figures) :
              a # b => <<Figures[a].q, Figures[a].r>> # <<Figures[b].q, Figures[b].r>>

\* C37 witness: four territories of six members each: 28 figures on 28 cells.
C37_Witness ==
    /\ passNo >= 1
    /\ Len(Repos) = 4
    /\ \A i \in 1..4 : Len(Repos[i].swarm) = 6
    /\ Len(Figures) = 28
    /\ Cardinality({<<Figures[k].q, Figures[k].r>> : k \in 1..Len(Figures)}) = 28

\* C38: in one pass every agent id stands on one cell: two member-list
\* entries with the same id, in one territory or in two, have their tokens on
\* the same cell.
C38_OneCellPerAgentId ==
    passNo >= 1 =>
        \A i1, i2 \in 1..Len(Repos) :
            \A j1 \in 1..Len(Repos[i1].swarm), j2 \in 1..Len(Repos[i2].swarm) :
                Repos[i1].swarm[j1] = Repos[i2].swarm[j2] =>
                    /\ Placed[TokenAt(i1, j1)].q = Placed[TokenAt(i2, j2)].q
                    /\ Placed[TokenAt(i1, j1)].r = Placed[TokenAt(i2, j2)].r

\* C39: while a graph is rendered, the node shown in the detail panel is
\* null or one of the nodes of the rendered graph.
C39_SelectionIsRendered ==
    (GraphShown /\ cyGraph # Undefined) =>
        (selectedNode = Null \/ selectedNode \in cyGraph.nodes)
====
